---------------------------- MODULE Spec2Model ----------------------------
(***************************************************************************)
(* Model of fn-analyzer's two batch runners, Analyzer.Run                  *)
(* (internal/analyzer/analyzer.go) and QueryExecutor.ExecuteBatch          *)
(* (internal/analyzer/query.go), of the execution unit they call and of    *)
(* the statistics they finalize with (pkg/utils/sliceutils.go), of the     *)
(* summary of a run (calculateSummary) and of the comparison of two runs   *)
(* (internal/report/json.go).  The statistics library and the comparator   *)
(* are also specified on their own, applied to arguments of their caller.  *)
(*                                                                         *)
(* Durations are counted in minutes, so that time.Hour, the value          *)
(* MinDuration starts at, is 60; timestamps are readings of a logical      *)
(* clock that advances at every time.Now() of the execution unit.          *)
(***************************************************************************)
EXTENDS Integers, Sequences, FiniteSets, TLC

\* ------------------------------------------------------------------ bounds
MaxQueries == 2
MaxIterations == 3
MaxConcurrency == 2
\* At most this many executions in one batch: Len(queries) * iterations.
MaxExecutions == 4
\* The error-cap specification runs ErrorCap + 1 .. ErrorCap + CapExtra
\* iterations of one query.
CapExtra == 2

\* ------------------------------------------------------- program constants
\* time.Hour, in minutes (analyzer.go:92, query.go:83).
Hour == 60
\* The cap on len(ErrorDetails) (analyzer.go:133, query.go:119).
ErrorCap == 10

\* A nil error.
Nil == "<nil>"

\* What the database answers to one QueryContext call and the row iteration
\* that follows it: issue is the time until QueryContext returns, issueErr its
\* error, rows the rows counted by rows.Next(), drain the time the iteration
\* takes, rowsErr the error of rows.Err().
DbResponses ==
    { [issue |-> 1, issueErr |-> Nil, rows |-> 0, drain |-> 0, rowsErr |-> Nil],
      [issue |-> Hour + 1, issueErr |-> Nil, rows |-> 2, drain |-> 1, rowsErr |-> Nil],
      [issue |-> 2, issueErr |-> "Deadlock found", rows |-> 0, drain |-> 0, rowsErr |-> Nil],
      [issue |-> 3, issueErr |-> Nil, rows |-> 1, drain |-> 1,
       rowsErr |-> "context deadline exceeded"] }

\* The answers of the error-cap specification: one failure, one success.
CapResponses ==
    { r \in DbResponses : r.rowsErr = Nil /\ r.issue < Hour }

VARIABLES
    runner,       \* "Run" or "ExecuteBatch"
    queries,      \* a.queries / the queries argument
    iterations,   \* a.iterations / the iterations argument
    concurrency,  \* a.concurrency / cap(qe.semaphore)
    db,           \* the answers the database may give in this batch
    now,          \* the clock read by time.Now()
    pc,           \* where the calling goroutine is
    qi,           \* Run: index of the query of the outer loop
    i,            \* Run: the inner loop's counter
    semaphore,    \* number of tokens in the semaphore channel
    resultMutex,  \* Run: holders of resultMutex (empty: unlocked)
    mutex,        \* ExecuteBatch: holders of qe.mutex (empty: unlocked)
    wg,           \* the WaitGroup's counter
    tasks,        \* the goroutines: Run's per iteration, ExecuteBatch's per query
    result,       \* Run: the result of the query being run
    durations,    \* per query, the durations slice that feeds the statistics
    results,      \* the QueryResults returned
    summary,      \* the ResultSummary GenerateReports computes from the results
    call,         \* the library function a caller has applied ("none": none yet)
    args,         \* its arguments, slices as the caller sees them
    ret           \* what it returned

vars == << runner, queries, iterations, concurrency, db, now, pc, qi, i, semaphore,
           resultMutex, mutex, wg, tasks, result, durations, results, summary,
           call, args, ret >>

\* The state of the runners, which the library alone leaves as it is.
batch == << runner, queries, iterations, concurrency, db, now, pc, qi, i, semaphore,
            resultMutex, mutex, wg, tasks, result, durations, results, summary >>

\* What no step of a runner changes.
config == << runner, queries, iterations, concurrency, db, summary, call, args, ret >>

\* ----------------------------------------------------------------- model
\* The text of a query, as far as AnalyzeQueryComplexity reads it: how often the
\* lower-cased text contains "join", "select", " and " and " or ", and which of
\* the other substrings it looks for are there.
QuerySQL(k) ==
    CASE k = 1 -> [join |-> 0, select |-> 1, and |-> 0, or |-> 0, has |-> {}]
      [] k = 2 -> [join |-> 3, select |-> 1, and |-> 1, or |-> 0,
                   has |-> {"group by", "count("}]
      [] k = 3 -> [join |-> 1, select |-> 1, and |-> 0, or |-> 0, has |-> {"order by"}]
      [] OTHER -> [join |-> 2, select |-> 1, and |-> 2, or |-> 0, has |-> {}]

\* model.Query, reduced to its key and its text.
Query(k) == [Name |-> << "query", k >>, SQL |-> QuerySQL(k)]

\* What AnalyzeQueryComplexity finds in the text before it applies its rules.
QueryFeatures(sql) ==
    [joinCount |-> sql.join,
     hasAggregation |->
         sql.has \cap {"group by", "count(", "sum(", "avg(", "max(", "min("} /= {},
     hasSubquery |-> sql.select > 1,
     hasOrdering |-> "order by" \in sql.has,
     hasWindowFunc |-> sql.has \cap {"over (", "over(", "rank()", "row_number()"} /= {},
     conditionComplexity |-> sql.and + sql.or,
     hasHaving |-> "having " \in sql.has,
     hasUnion |-> "union " \in sql.has,
     hasCTE |-> "with " \in sql.has /\ sql.has \cap {" as (", " as("} /= {}]

\* Rules that test for medium before they test for high.
AnalyzeQueryComplexityMediumFirst(sql) ==
    LET f == QueryFeatures(sql)
    IN  IF \/ f.joinCount > 0 /\ (f.hasAggregation \/ f.hasSubquery)
           \/ f.conditionComplexity > 2
           \/ f.joinCount > 1
        THEN "medium"
        ELSE IF \/ f.joinCount > 2 /\ (f.hasAggregation \/ f.hasSubquery)
                \/ f.hasWindowFunc
                \/ f.hasUnion
                \/ f.hasAggregation /\ f.hasHaving
                \/ f.hasCTE
                \/ f.conditionComplexity > 5
        THEN "high"
        ELSE IF f.joinCount > 0 \/ f.hasAggregation \/ f.hasSubquery \/ f.hasOrdering
        THEN "low-medium"
        ELSE "low"

\* Rules whose last medium test is joinCount == 2.
AnalyzeQueryComplexityExactJoins(sql) ==
    LET f == QueryFeatures(sql)
    IN  IF \/ f.joinCount > 2 /\ (f.hasAggregation \/ f.hasSubquery)
           \/ f.hasWindowFunc
           \/ f.hasUnion
           \/ f.hasAggregation /\ f.hasHaving
           \/ f.hasCTE
           \/ f.conditionComplexity > 5
        THEN "high"
        ELSE IF \/ f.joinCount > 0 /\ (f.hasAggregation \/ f.hasSubquery)
                \/ f.conditionComplexity > 2
                \/ f.joinCount = 2
        THEN "medium"
        ELSE IF f.joinCount > 0 \/ f.hasAggregation \/ f.hasSubquery \/ f.hasOrdering
        THEN "low-medium"
        ELSE "low"

\* AnalyzeQueryComplexity.
AnalyzeQueryComplexity(sql) ==
    LET f == QueryFeatures(sql)
    IN  IF \/ f.joinCount > 2 /\ (f.hasAggregation \/ f.hasSubquery)
           \/ f.hasWindowFunc
           \/ f.hasUnion
           \/ f.hasAggregation /\ f.hasHaving
           \/ f.hasCTE
           \/ f.conditionComplexity > 5
        THEN "high"
        ELSE IF \/ f.joinCount > 0 /\ (f.hasAggregation \/ f.hasSubquery)
                \/ f.conditionComplexity > 2
                \/ f.joinCount > 1
        THEN "medium"
        ELSE IF f.joinCount > 0 \/ f.hasAggregation \/ f.hasSubquery \/ f.hasOrdering
        THEN "low-medium"
        ELSE "low"

\* The zero model.QueryResult.
ZeroResult ==
    [Name |-> << >>, Executions |-> << >>, SuccessfulExecutions |-> 0, Errors |-> 0,
     ErrorDetails |-> << >>, TotalDuration |-> 0, AvgDuration |-> 0, MinDuration |-> 0,
     MaxDuration |-> 0, MedianDuration |-> 0, StdDevDuration |-> 0, Percentile95 |-> 0,
     Percentile99 |-> 0, RowsAffected |-> 0, FirstExecutedAt |-> 0, LastExecutedAt |-> 0,
     QueryComplexity |-> ""]

\* A QueryResult started without the MinDuration sentinel.
NewQueryResultNoSentinel(query) ==
    [ZeroResult EXCEPT !.Name = query.Name,
                       !.QueryComplexity = AnalyzeQueryComplexity(query.SQL)]

\* The QueryResult both runners start a query with.
NewQueryResult(query) ==
    [ZeroResult EXCEPT !.Name = query.Name, !.MinDuration = Hour,
                       !.QueryComplexity = AnalyzeQueryComplexity(query.SQL)]

\* ------------------------------------------------------------ sliceutils
RECURSIVE Insert(_, _)
Insert(x, s) ==
    IF s = << >> THEN << x >>
    ELSE IF x <= Head(s) THEN << x >> \o s
    ELSE << Head(s) >> \o Insert(x, Tail(s))

\* sort.Slice(durations, less) with less = "<".
RECURSIVE SortSlice(_)
SortSlice(s) == IF s = << >> THEN << >> ELSE Insert(Head(s), SortSlice(Tail(s)))

RECURSIVE Sum(_)
Sum(s) == IF s = << >> THEN 0 ELSE Head(s) + Sum(Tail(s))

\* time.Duration(math.Sqrt(float64(sum) / float64(n))): the integer part of the
\* square root, which never exceeds hi.
SqrtOfQuotient(sum, n, hi) ==
    CHOOSE k \in 0..hi : k * k * n <= sum /\ (k = hi \/ (k + 1) * (k + 1) * n > sum)

\* An index counted from the end of the slice.
PercentileIndexFromEnd(n, p) == n - 1 - (n * p) \div 100

\* int(float64(n) * 0.5), int(float64(n) * 0.95), int(float64(n) * 0.99) and the
\* test that keeps the index inside the slice.
PercentileIndex(n, p) ==
    LET idx == (n * p) \div 100
    IN  IF idx >= n THEN n - 1 ELSE idx

ZeroStats ==
    [Min |-> 0, Max |-> 0, Mean |-> 0, Median |-> 0, StdDev |-> 0, P95 |-> 0, P99 |-> 0,
     Samples |-> 0]

\* sumSquares of both standard deviations: the squared distances to the mean.
SumSquares(ds, mean) ==
    Sum([k \in 1..Len(ds) |-> (ds[k] - mean) * (ds[k] - mean)])

\* A float64 quotient of two integers, kept exact.
Quotient(num, den) == [num |-> num, den |-> den]

\* The textbook nearest rank: the smallest element with at least percentile
\* percent of the slice at or below it.
CalculatePercentileTextbook(ds, percentile) ==
    IF Len(ds) = 0 THEN 0
    ELSE LET sorted == SortSlice(ds)
             rank == (Len(sorted) * percentile + 99) \div 100
         IN  IF rank = 0 THEN sorted[1] ELSE sorted[rank]

\* utils.CalculatePercentile for a whole percentile: the value returned.
CalculatePercentile(ds, percentile) ==
    IF Len(ds) = 0 THEN 0
    ELSE LET sorted == SortSlice(ds)
             idx == (Len(sorted) * percentile) \div 100
         IN  IF idx >= Len(sorted) THEN sorted[Len(sorted)] ELSE sorted[idx + 1]

\* The variance of utils.CalculateStandardDeviation.
StandardDeviationVariance(ds, mean) == Quotient(SumSquares(ds, mean), Len(ds) - 1)

\* utils.CalculateStandardDeviation.
CalculateStandardDeviation(ds, mean) ==
    IF Len(ds) <= 1 THEN 0
    ELSE LET variance == StandardDeviationVariance(ds, mean)
         IN  SqrtOfQuotient(variance.num, variance.den, variance.num)

\* The variance of utils.CalculateStats.
StatsVariance(ds, mean) == Quotient(SumSquares(ds, mean), Len(ds))

\* utils.CalculateStats; sorted is the slice after the in-place sort.
CalculateStats(ds) ==
    IF Len(ds) = 0 THEN ZeroStats
    ELSE LET sorted == SortSlice(ds)
             n == Len(sorted)
             mean == Sum(sorted) \div n
             variance == StatsVariance(sorted, mean)
         IN  [Min |-> sorted[1],
              Max |-> sorted[n],
              Mean |-> mean,
              Median |-> sorted[PercentileIndex(n, 50) + 1],
              StdDev |-> SqrtOfQuotient(variance.num, variance.den, sorted[n] - sorted[1]),
              P95 |-> sorted[PercentileIndex(n, 95) + 1],
              P99 |-> sorted[PercentileIndex(n, 99) + 1],
              Samples |-> n]

\* -------------------------------------------------------- execution unit
\* An execution unit that does not look at rows.Err().
executeQueryWithoutRowsErr(resp, t) ==
    LET issued == [startTime |-> t, duration |-> resp.issue, rowCount |-> 0, err |-> Nil]
    IN  IF resp.issueErr /= Nil
        THEN [issued EXCEPT !.err = resp.issueErr]
        ELSE [issued EXCEPT !.rowCount = resp.rows]

\* Analyzer.executeQuery: the queryResult of one execution started at time t.
executeQuery(resp, t) ==
    LET issued == [startTime |-> t, duration |-> resp.issue, rowCount |-> 0, err |-> Nil]
    IN  IF resp.issueErr /= Nil
        THEN [issued EXCEPT !.err = resp.issueErr]
        ELSE [issued EXCEPT !.rowCount = resp.rows, !.err = resp.rowsErr]

\* QueryExecutor.ExecuteQuery: the model.QueryExecution of one execution.
ExecuteQuery(resp, t) ==
    LET issued == [StartTime |-> t, Duration |-> resp.issue, RowCount |-> 0,
                   Error |-> Nil, ErrorMessage |-> ""]
    IN  IF resp.issueErr /= Nil
        THEN [issued EXCEPT !.Error = resp.issueErr, !.ErrorMessage = resp.issueErr]
        ELSE IF resp.rowsErr /= Nil
        THEN [issued EXCEPT !.RowCount = resp.rows, !.Error = resp.rowsErr,
                            !.ErrorMessage = resp.rowsErr]
        ELSE [issued EXCEPT !.RowCount = resp.rows]

\* The zero values a goroutine's locals hold before the execution.
ZeroQueryResult == [startTime |-> 0, duration |-> 0, rowCount |-> 0, err |-> Nil]
ZeroExecution ==
    [StartTime |-> 0, Duration |-> 0, RowCount |-> 0, Error |-> Nil, ErrorMessage |-> ""]
ZeroResponse == [issue |-> 0, issueErr |-> Nil, rows |-> 0, drain |-> 0, rowsErr |-> Nil]

\* The zero model.ResultSummary.
ZeroSummary ==
    [TotalQueries |-> 0, SuccessfulQueries |-> 0, FailedQueries |-> 0,
     TotalExecutions |-> 0, SuccessfulExecutions |-> 0, FailedExecutions |-> 0,
     TotalRowsReturned |-> 0, AvgDurationMs |-> 0, MaxDurationMs |-> 0,
     QueriesByComplexity |-> << >>]

\* ------------------------------------------------------------------ Init
QueryList(n) == [k \in 1..n |-> Query(k)]

InitState(n, iters, c, answers, r) ==
    /\ runner = r
    /\ queries = QueryList(n)
    /\ iterations = iters
    /\ concurrency = c
    /\ db = answers
    /\ now = 1
    /\ pc = "start"
    /\ qi = 0
    /\ i = 0
    /\ semaphore = 0
    /\ resultMutex = {}
    /\ mutex = {}
    /\ wg = 0
    /\ tasks = << >>
    /\ result = ZeroResult
    /\ durations = [k \in 1..n |-> << >>]
    /\ results = << >>
    /\ summary = ZeroSummary

\* No library function applied on its own.
NoCall ==
    /\ call = "none"
    /\ args = << >>
    /\ ret = << >>

Init ==
    /\ NoCall
    /\ \E n \in 1..MaxQueries, iters \in 1..MaxIterations, c \in 1..MaxConcurrency,
         r \in {"Run", "ExecuteBatch"} :
          /\ n * iters <= MaxExecutions
          /\ InitState(n, iters, c, DbResponses, r)

\* ---------------------------------------------------------- Analyzer.Run
\* The model.QueryExecution Run builds from a queryResult (Error is never set).
RunExecution(qr) ==
    [StartTime |-> qr.startTime, Duration |-> qr.duration, RowCount |-> qr.rowCount,
     Error |-> Nil, ErrorMessage |-> IF qr.err /= Nil THEN qr.err ELSE ""]

\* A critical section that keeps a message out of ErrorDetails when it is
\* already there.
RunCountDistinct(r, qr) ==
    LET stamped == [r EXCEPT !.FirstExecutedAt =
                                 IF Len(r.Executions) = 0 THEN qr.startTime ELSE @,
                             !.LastExecutedAt = qr.startTime]
    IN  IF qr.err /= Nil
        THEN [stamped EXCEPT !.Errors = @ + 1,
                             !.ErrorDetails =
                                 IF Len(@) < ErrorCap /\ \A k \in 1..Len(@) : @[k] /= qr.err
                                 THEN Append(@, qr.err) ELSE @]
        ELSE [stamped EXCEPT !.SuccessfulExecutions = @ + 1,
                             !.TotalDuration = @ + qr.duration,
                             !.RowsAffected = @ + qr.rowCount]

\* The first part of Run's critical section: the timestamps and the counters.
RunCount(r, qr) ==
    LET stamped == [r EXCEPT !.FirstExecutedAt =
                                 IF Len(r.Executions) = 0 THEN qr.startTime ELSE @,
                             !.LastExecutedAt = qr.startTime]
    IN  IF qr.err /= Nil
        THEN [stamped EXCEPT !.Errors = @ + 1,
                             !.ErrorDetails =
                                 IF Len(@) < ErrorCap THEN Append(@, qr.err) ELSE @]
        ELSE [stamped EXCEPT !.SuccessfulExecutions = @ + 1,
                             !.TotalDuration = @ + qr.duration,
                             !.RowsAffected = @ + qr.rowCount]

\* A slice that takes the duration before the error is looked at.
RunDurationsOfAll(ds, qr) == Append(ds, qr.duration)

\* The durations slice after the first part of the critical section.
RunDurations(ds, qr) == IF qr.err /= Nil THEN ds ELSE Append(ds, qr.duration)

\* A failure path that returns before the append to Executions.
RunRecordDropsFailure(r, qr) ==
    IF qr.err /= Nil
    THEN r
    ELSE [r EXCEPT !.Executions = Append(@, RunExecution(qr)),
                   !.MinDuration = IF qr.duration < @ THEN qr.duration ELSE @,
                   !.MaxDuration = IF qr.duration > @ THEN qr.duration ELSE @]

\* The second part: the append to Executions and, on success, min and max.
RunRecord(r, qr) ==
    LET appended == [r EXCEPT !.Executions = Append(@, RunExecution(qr))]
    IN  IF qr.err /= Nil
        THEN appended
        ELSE [appended EXCEPT
                 !.MinDuration = IF qr.duration < @ THEN qr.duration ELSE @,
                 !.MaxDuration = IF qr.duration > @ THEN qr.duration ELSE @]

\* An average over all the executions, the failed ones included.
RunFinalizeResultOverAll(r, ds) ==
    LET averaged == IF r.SuccessfulExecutions > 0
                    THEN [r EXCEPT !.AvgDuration = r.TotalDuration \div Len(r.Executions)]
                    ELSE r
        sorted == SortSlice(ds)
    IN  IF Len(ds) > 0
        THEN [averaged EXCEPT !.Percentile95 = sorted[PercentileIndex(Len(ds), 95) + 1]]
        ELSE averaged

\* What Run does to a result once its goroutines are done: the average and P95.
RunFinalizeResult(r, ds) ==
    LET averaged == IF r.SuccessfulExecutions > 0
                    THEN [r EXCEPT !.AvgDuration =
                                       r.TotalDuration \div r.SuccessfulExecutions]
                    ELSE r
        sorted == SortSlice(ds)
    IN  IF Len(ds) > 0
        THEN [averaged EXCEPT !.Percentile95 = sorted[PercentileIndex(Len(ds), 95) + 1]]
        ELSE averaged

IdleTask == [pc |-> "idle", queryResult |-> ZeroQueryResult, resp |-> ZeroResponse]

RunBegin ==
    /\ runner = "Run"
    /\ pc = "start"
    /\ pc' = "query"
    /\ qi' = 1
    /\ results' = << >>
    /\ semaphore' = 0
    /\ UNCHANGED << config, now, i, resultMutex, mutex, wg, tasks, result, durations >>

RunQuery ==
    /\ runner = "Run"
    /\ pc = "query"
    /\ qi <= Len(queries)
    /\ result' = NewQueryResult(queries[qi])
    /\ durations' = [durations EXCEPT ![qi] = << >>]
    /\ resultMutex' = {}
    /\ wg' = 0
    /\ i' = 0
    /\ tasks' = [t \in 0..(iterations - 1) |-> IdleTask]
    /\ pc' = "iterate"
    /\ UNCHANGED << config, now, qi, semaphore, mutex, results >>

RunDispatch ==
    /\ runner = "Run"
    /\ pc = "iterate"
    /\ i < iterations
    /\ semaphore < concurrency
    /\ wg' = wg + 1
    /\ semaphore' = semaphore + 1
    /\ tasks' = [tasks EXCEPT ![i].pc = "exec"]
    /\ i' = i + 1
    /\ UNCHANGED << config, now, pc, qi, resultMutex, mutex, result, durations, results >>

RunExecute(t) ==
    /\ runner = "Run"
    /\ tasks[t].pc = "exec"
    /\ \E resp \in db :
          tasks' = [tasks EXCEPT ![t] = [pc |-> "lock",
                                         queryResult |-> executeQuery(resp, now),
                                         resp |-> resp]]
    /\ now' = now + 1
    /\ UNCHANGED << config, pc, qi, i, semaphore, resultMutex, mutex, wg, result,
                    durations, results >>

RunLock(t) ==
    /\ runner = "Run"
    /\ tasks[t].pc = "lock"
    /\ resultMutex = {}
    /\ resultMutex' = {t}
    /\ tasks' = [tasks EXCEPT ![t].pc = "count"]
    /\ UNCHANGED << config, now, pc, qi, i, semaphore, mutex, wg, result, durations,
                    results >>

RunMerge(t) ==
    /\ runner = "Run"
    /\ tasks[t].pc = "count"
    /\ result' = RunCount(result, tasks[t].queryResult)
    /\ durations' = [durations EXCEPT ![qi] = RunDurations(@, tasks[t].queryResult)]
    /\ tasks' = [tasks EXCEPT ![t].pc = "record"]
    /\ UNCHANGED << config, now, pc, qi, i, semaphore, resultMutex, mutex, wg, results >>

RunAppend(t) ==
    /\ runner = "Run"
    /\ tasks[t].pc = "record"
    /\ result' = RunRecord(result, tasks[t].queryResult)
    /\ resultMutex' = resultMutex \ {t}
    /\ tasks' = [tasks EXCEPT ![t].pc = "exit"]
    /\ UNCHANGED << config, now, pc, qi, i, semaphore, mutex, wg, durations, results >>

\* A goroutine that ends without giving its slot back.
RunReleaseForgotten(sem) == sem

\* The deferred <-semaphore that ends the goroutine (with wg.Done()).
RunRelease(sem) == sem - 1

RunExit(t) ==
    /\ runner = "Run"
    /\ tasks[t].pc = "exit"
    /\ semaphore' = RunRelease(semaphore)
    /\ wg' = wg - 1
    /\ tasks' = [tasks EXCEPT ![t] = [IdleTask EXCEPT !.pc = "done"]]
    /\ UNCHANGED << config, now, pc, qi, i, resultMutex, mutex, result, durations,
                    results >>

RunFinalize ==
    /\ runner = "Run"
    /\ pc = "iterate"
    /\ i = iterations
    /\ wg = 0
    /\ durations' = [durations EXCEPT ![qi] = SortSlice(@)]
    /\ results' = Append(results, RunFinalizeResult(result, durations[qi]))
    /\ qi' = qi + 1
    /\ pc' = "query"
    /\ UNCHANGED << config, now, i, semaphore, resultMutex, mutex, wg, tasks, result >>

RunReturn ==
    /\ runner = "Run"
    /\ pc = "query"
    /\ qi > Len(queries)
    /\ pc' = "returned"
    /\ UNCHANGED << config, now, qi, i, semaphore, resultMutex, mutex, wg, tasks, result,
                    durations, results >>

RunNext ==
    \/ RunBegin
    \/ RunQuery
    \/ RunDispatch
    \/ \E t \in DOMAIN tasks : RunExecute(t)
    \/ \E t \in DOMAIN tasks : RunLock(t)
    \/ \E t \in DOMAIN tasks : RunMerge(t)
    \/ \E t \in DOMAIN tasks : RunAppend(t)
    \/ \E t \in DOMAIN tasks : RunExit(t)
    \/ RunFinalize
    \/ RunReturn

\* ------------------------------------------------- QueryExecutor.ExecuteBatch
\* Stamps that take the execution at hand for the first one every time.
BatchStampFirstAlways(r, execution) ==
    [r EXCEPT !.FirstExecutedAt = execution.StartTime,
              !.LastExecutedAt = execution.StartTime]

\* The timestamps ExecuteBatch sets before it takes the lock.
BatchStamp(r, execution) ==
    [r EXCEPT !.FirstExecutedAt = IF Len(r.Executions) = 0 THEN execution.StartTime ELSE @,
              !.LastExecutedAt = execution.StartTime]

\* The first statement of ExecuteBatch's critical section.
BatchRecord(r, execution) == [r EXCEPT !.Executions = Append(@, execution)]

\* The cap tested with <= : one message too many.
BatchCountOffByOne(r, execution) ==
    IF execution.Error /= Nil
    THEN [r EXCEPT !.Errors = @ + 1,
                   !.ErrorDetails =
                       IF Len(@) <= ErrorCap THEN Append(@, execution.ErrorMessage) ELSE @]
    ELSE [r EXCEPT !.SuccessfulExecutions = @ + 1,
                   !.TotalDuration = @ + execution.Duration,
                   !.RowsAffected = @ + execution.RowCount,
                   !.MinDuration = IF execution.Duration < @ THEN execution.Duration ELSE @,
                   !.MaxDuration = IF execution.Duration > @ THEN execution.Duration ELSE @]

\* The rest of the critical section: the counters, the error list, min and max.
BatchCount(r, execution) ==
    IF execution.Error /= Nil
    THEN [r EXCEPT !.Errors = @ + 1,
                   !.ErrorDetails =
                       IF Len(@) < ErrorCap THEN Append(@, execution.ErrorMessage) ELSE @]
    ELSE [r EXCEPT !.SuccessfulExecutions = @ + 1,
                   !.TotalDuration = @ + execution.Duration,
                   !.RowsAffected = @ + execution.RowCount,
                   !.MinDuration = IF execution.Duration < @ THEN execution.Duration ELSE @,
                   !.MaxDuration = IF execution.Duration > @ THEN execution.Duration ELSE @]

Succeeded(execution) == execution.Error = Nil

\* The durations slice ExecuteBatch builds from the executions without error.
BatchDurations(r) ==
    LET ok == SelectSeq(r.Executions, Succeeded)
    IN  [k \in 1..Len(ok) |-> ok[k].Duration]

\* A finalization that sorts the executions themselves by duration.
BatchFinalizeResultSortsExecutions(r) ==
    IF r.SuccessfulExecutions > 0
    THEN LET averaged == [r EXCEPT !.AvgDuration =
                                       r.TotalDuration \div r.SuccessfulExecutions]
             ds == BatchDurations(r)
             stats == CalculateStats(ds)
             byDuration == SortSlice([k \in 1..Len(r.Executions) |->
                                         r.Executions[k].Duration])
             sorted == [k \in 1..Len(r.Executions) |->
                           CHOOSE e \in { r.Executions[j] : j \in 1..Len(r.Executions) } :
                               e.Duration = byDuration[k]]
         IN  IF Len(ds) > 0
             THEN [averaged EXCEPT !.Executions = sorted,
                                   !.Percentile95 = stats.P95,
                                   !.Percentile99 = stats.P99,
                                   !.StdDevDuration = stats.StdDev,
                                   !.MedianDuration = stats.Median]
             ELSE averaged
    ELSE r

\* What ExecuteBatch does to a result once its iterations are done.
BatchFinalizeResult(r) ==
    IF r.SuccessfulExecutions > 0
    THEN LET averaged == [r EXCEPT !.AvgDuration =
                                       r.TotalDuration \div r.SuccessfulExecutions]
             ds == BatchDurations(r)
             stats == CalculateStats(ds)
         IN  IF Len(ds) > 0
             THEN [averaged EXCEPT !.Percentile95 = stats.P95,
                                   !.Percentile99 = stats.P99,
                                   !.StdDevDuration = stats.StdDev,
                                   !.MedianDuration = stats.Median]
             ELSE averaged
    ELSE r

NewBatchTask ==
    [pc |-> "acquire", iter |-> 0, execution |-> ZeroExecution, resp |-> ZeroResponse]

BatchBegin ==
    /\ runner = "ExecuteBatch"
    /\ pc = "start"
    /\ results' = [k \in 1..Len(queries) |-> NewQueryResult(queries[k])]
    /\ wg' = Len(queries)
    /\ tasks' = [k \in 1..Len(queries) |-> NewBatchTask]
    /\ pc' = "wait"
    /\ UNCHANGED << config, now, qi, i, semaphore, resultMutex, mutex, result, durations >>

BatchAcquire(idx) ==
    /\ runner = "ExecuteBatch"
    /\ tasks[idx].pc = "acquire"
    /\ semaphore < concurrency
    /\ semaphore' = semaphore + 1
    /\ tasks' = [tasks EXCEPT ![idx].pc = "exec"]
    /\ UNCHANGED << config, now, pc, qi, i, resultMutex, mutex, wg, result, durations,
                    results >>

BatchExecute(idx) ==
    /\ runner = "ExecuteBatch"
    /\ tasks[idx].pc = "exec"
    /\ \E resp \in db :
          tasks' = [tasks EXCEPT ![idx].pc = "release",
                                 ![idx].execution = ExecuteQuery(resp, now),
                                 ![idx].resp = resp]
    /\ now' = now + 1
    /\ UNCHANGED << config, pc, qi, i, semaphore, resultMutex, mutex, wg, result,
                    durations, results >>

\* An iteration that keeps its slot.
BatchReleaseForgotten(sem) == sem

\* <-qe.semaphore
BatchRelease(sem) == sem - 1

BatchReleaseSlot(idx) ==
    /\ runner = "ExecuteBatch"
    /\ tasks[idx].pc = "release"
    /\ semaphore' = BatchRelease(semaphore)
    /\ results' = [results EXCEPT ![idx] = BatchStamp(@, tasks[idx].execution)]
    /\ tasks' = [tasks EXCEPT ![idx].pc = "lock"]
    /\ UNCHANGED << config, now, pc, qi, i, resultMutex, mutex, wg, result, durations >>

BatchLock(idx) ==
    /\ runner = "ExecuteBatch"
    /\ tasks[idx].pc = "lock"
    /\ mutex = {}
    /\ mutex' = {idx}
    /\ tasks' = [tasks EXCEPT ![idx].pc = "record"]
    /\ UNCHANGED << config, now, pc, qi, i, semaphore, resultMutex, wg, result, durations,
                    results >>

BatchAppend(idx) ==
    /\ runner = "ExecuteBatch"
    /\ tasks[idx].pc = "record"
    /\ results' = [results EXCEPT ![idx] = BatchRecord(@, tasks[idx].execution)]
    /\ tasks' = [tasks EXCEPT ![idx].pc = "count"]
    /\ UNCHANGED << config, now, pc, qi, i, semaphore, resultMutex, mutex, wg, result,
                    durations >>

\* A loop that gives up at the first failed execution.
BatchLoopStopsOnError(iter, execution) ==
    IF iter < iterations /\ execution.Error = Nil THEN "acquire" ELSE "finalize"

\* The loop's iter++ and its condition iter < iterations, whatever the execution
\* just merged was: where the goroutine goes next.
BatchLoop(iter, execution) == IF iter < iterations THEN "acquire" ELSE "finalize"

BatchMerge(idx) ==
    /\ runner = "ExecuteBatch"
    /\ tasks[idx].pc = "count"
    /\ results' = [results EXCEPT ![idx] = BatchCount(@, tasks[idx].execution)]
    /\ mutex' = mutex \ {idx}
    /\ tasks' = [tasks EXCEPT ![idx] =
                    [NewBatchTask EXCEPT
                        !.iter = tasks[idx].iter + 1,
                        !.pc = BatchLoop(tasks[idx].iter + 1, tasks[idx].execution)]]
    /\ UNCHANGED << config, now, pc, qi, i, semaphore, resultMutex, wg, result, durations >>

BatchFinalize(idx) ==
    /\ runner = "ExecuteBatch"
    /\ tasks[idx].pc = "finalize"
    /\ results' = [results EXCEPT ![idx] = BatchFinalizeResult(@)]
    /\ durations' = [durations EXCEPT ![idx] =
                        IF results[idx].SuccessfulExecutions > 0
                        THEN SortSlice(BatchDurations(results[idx])) ELSE @]
    /\ wg' = wg - 1
    /\ tasks' = [tasks EXCEPT ![idx].pc = "done"]
    /\ UNCHANGED << config, now, pc, qi, i, semaphore, resultMutex, mutex, result >>

BatchReturn ==
    /\ runner = "ExecuteBatch"
    /\ pc = "wait"
    /\ wg = 0
    /\ pc' = "returned"
    /\ UNCHANGED << config, now, qi, i, semaphore, resultMutex, mutex, wg, tasks, result,
                    durations, results >>

BatchNext ==
    \/ BatchBegin
    \/ \E idx \in DOMAIN tasks : BatchAcquire(idx)
    \/ \E idx \in DOMAIN tasks : BatchExecute(idx)
    \/ \E idx \in DOMAIN tasks : BatchReleaseSlot(idx)
    \/ \E idx \in DOMAIN tasks : BatchLock(idx)
    \/ \E idx \in DOMAIN tasks : BatchAppend(idx)
    \/ \E idx \in DOMAIN tasks : BatchMerge(idx)
    \/ \E idx \in DOMAIN tasks : BatchFinalize(idx)
    \/ BatchReturn

\* --------------------------------------------------------- the summary
\* float64(d.Microseconds()) / 1000 of a duration of d minutes.
Milliseconds(d) == d * 60000

\* m[key]++ on a map[string]int.
Increment(m, key) ==
    IF key \in DOMAIN m THEN [m EXCEPT ![key] = @ + 1] ELSE m @@ (key :> 1)

\* A pass that counts, in FailedExecutions, the queries that failed.
SummaryStepCountsQueries(acc, r) ==
    [summary |->
        [acc.summary EXCEPT
            !.TotalExecutions = @ + Len(r.Executions),
            !.SuccessfulExecutions = @ + r.SuccessfulExecutions,
            !.FailedExecutions = IF r.Errors = 0 THEN @ ELSE @ + 1,
            !.TotalRowsReturned = @ + r.RowsAffected,
            !.SuccessfulQueries = IF r.Errors = 0 THEN @ + 1 ELSE @,
            !.FailedQueries = IF r.Errors = 0 THEN @ ELSE @ + 1,
            !.QueriesByComplexity = Increment(@, r.QueryComplexity)],
     totalDuration |-> acc.totalDuration + r.AvgDuration,
     maxDuration |-> IF r.MaxDuration > acc.maxDuration THEN r.MaxDuration
                     ELSE acc.maxDuration]

\* One pass of calculateSummary's loop; totalDuration and maxDuration are its
\* two local variables.
SummaryStep(acc, r) ==
    [summary |->
        [acc.summary EXCEPT
            !.TotalExecutions = @ + Len(r.Executions),
            !.SuccessfulExecutions = @ + r.SuccessfulExecutions,
            !.FailedExecutions = @ + r.Errors,
            !.TotalRowsReturned = @ + r.RowsAffected,
            !.SuccessfulQueries = IF r.Errors = 0 THEN @ + 1 ELSE @,
            !.FailedQueries = IF r.Errors = 0 THEN @ ELSE @ + 1,
            !.QueriesByComplexity = Increment(@, r.QueryComplexity)],
     totalDuration |-> acc.totalDuration + r.AvgDuration,
     maxDuration |-> IF r.MaxDuration > acc.maxDuration THEN r.MaxDuration
                     ELSE acc.maxDuration]

RECURSIVE SummaryLoop(_, _)
SummaryLoop(acc, rs) ==
    IF rs = << >> THEN acc ELSE SummaryLoop(SummaryStep(acc, Head(rs)), Tail(rs))

\* calculateSummary.
calculateSummary(rs) ==
    LET acc == SummaryLoop([summary |-> [ZeroSummary EXCEPT !.TotalQueries = Len(rs)],
                            totalDuration |-> 0, maxDuration |-> 0], rs)
    IN  IF acc.summary.TotalQueries > 0
        THEN [acc.summary EXCEPT
                 !.AvgDurationMs =
                     Milliseconds(acc.totalDuration \div acc.summary.TotalQueries),
                 !.MaxDurationMs = Milliseconds(acc.maxDuration)]
        ELSE acc.summary

\* GenerateReports, called with the results a runner returned.
GenerateReports ==
    /\ pc = "returned"
    /\ summary' = calculateSummary(results)
    /\ pc' = "reported"
    /\ UNCHANGED << runner, queries, iterations, concurrency, db, call, args, ret, now,
                    qi, i, semaphore, resultMutex, mutex, wg, tasks, result, durations,
                    results >>

\* ------------------------------------------------- the error classifier
\* The substrings classifyErrorMessage looks for.
ErrorSubstrings ==
    {"deadlock", "lock wait timeout", "foreign key constraint", "duplicate entry",
     "truncated", "out of range", "convert", "illegal mix", "context deadline", "timeout"}

\* strings.ToLower(errMsg) of the messages of the database, as far as the
\* classifier reads it: which of the substrings it contains.
ToLower(errMsg) ==
    CASE errMsg = "Deadlock found" -> {"deadlock"}
      [] errMsg = "context deadline exceeded" -> {"context deadline"}
      [] OTHER -> {}

\* A chain that tests for a timeout before it tests for a lock wait timeout.
classifyErrorMessageTimeoutFirst(lower) ==
    IF "deadlock" \in lower THEN "Deadlock"
    ELSE IF "context deadline" \in lower \/ "timeout" \in lower THEN "Query timeout"
    ELSE IF "lock wait timeout" \in lower THEN "Lock timeout"
    ELSE IF "foreign key constraint" \in lower THEN "Foreign key constraint"
    ELSE IF "duplicate entry" \in lower THEN "Duplicate entry"
    ELSE IF "truncated" \in lower \/ "out of range" \in lower THEN "Data truncation/range"
    ELSE IF "convert" \in lower \/ "illegal mix" \in lower THEN "Type conversion"
    ELSE "Other error"

\* classifyErrorMessage, from the lower-cased message on.
classifyErrorMessage(lower) ==
    IF "deadlock" \in lower THEN "Deadlock"
    ELSE IF "lock wait timeout" \in lower THEN "Lock timeout"
    ELSE IF "foreign key constraint" \in lower THEN "Foreign key constraint"
    ELSE IF "duplicate entry" \in lower THEN "Duplicate entry"
    ELSE IF "truncated" \in lower \/ "out of range" \in lower THEN "Data truncation/range"
    ELSE IF "convert" \in lower \/ "illegal mix" \in lower THEN "Type conversion"
    ELSE IF "context deadline" \in lower \/ "timeout" \in lower THEN "Query timeout"
    ELSE "Other error"

\* The inner loop of ClassifyErrors over the ErrorDetails of one result.
RECURSIVE ClassifyDetails(_, _)
ClassifyDetails(errorTypes, details) ==
    IF details = << >> THEN errorTypes
    ELSE ClassifyDetails(Increment(errorTypes, classifyErrorMessage(ToLower(Head(details)))),
                         Tail(details))

RECURSIVE ClassifyResults(_, _)
ClassifyResults(errorTypes, rs) ==
    IF rs = << >> THEN errorTypes
    ELSE ClassifyResults(ClassifyDetails(errorTypes, Head(rs).ErrorDetails), Tail(rs))

\* ClassifyErrors.
ClassifyErrors(rs) == ClassifyResults(<< >>, rs)

\* A caller of the package tallies the errors of the results a runner returned.
CallClassifyErrors ==
    /\ pc \in {"returned", "reported"}
    /\ call = "none"
    /\ call' = "ClassifyErrors"
    /\ ret' = ClassifyErrors(results)
    /\ UNCHANGED << batch, args >>

Next == RunNext \/ BatchNext \/ GenerateReports \/ CallClassifyErrors

Spec == Init /\ [][Next]_vars

\* Every step is one of finitely many of a batch, and Go's runtime runs every
\* goroutine that can take a step: the batch does not stop while a step is enabled.
InitFair ==
    /\ NoCall
    /\ \E n \in 1..MaxQueries, iters \in 1..MaxIterations, c \in 1..MaxConcurrency,
         r \in {"Run", "ExecuteBatch"} :
          /\ n * iters <= MaxExecutions
          /\ InitState(n, iters, c, CapResponses, r)

FairSpec == InitFair /\ [][Next]_vars /\ WF_vars(Next)

\* The error-cap batches: one query, more iterations than ErrorDetails holds,
\* successes and failures, one execution at a time (the cap is tested and the
\* message appended inside the critical section).
InitCap ==
    /\ NoCall
    /\ \E iters \in (ErrorCap + 1)..(ErrorCap + CapExtra), r \in {"Run", "ExecuteBatch"} :
          InitState(1, iters, 1, CapResponses, r)

SpecCap == InitCap /\ [][Next]_vars

\* ------------------------------------------------- the statistics alone
\* The statistics functions applied to a slice of durations by a caller of the
\* library, outside any batch.
MaxSamples == 4
MaxSampleValue == 3
\* Lengths at which the median, the 95th and the 99th percentile are three
\* different elements (25) and the last two the same one (20).
LongLengths == {20, 25}
Percentiles == {0, 25, 50, 95, 99, 100}

\* n distinct durations, the longest first.
Ramp(n) == [k \in 1..n |-> n + 1 - k]

SampleSlices ==
    UNION { [1..n -> 1..MaxSampleValue] : n \in 0..MaxSamples }
        \cup { Ramp(n) : n \in LongLengths }

\* The slice is passed by reference: args.durations is what the caller finds in
\* it, args.original what it held when the call was made.
InitStats ==
    /\ InitState(0, 1, 1, {}, "none")
    /\ call = "none"
    /\ ret = << >>
    /\ \E ds \in SampleSlices, p \in Percentiles :
          args = [original |-> ds, durations |-> ds, percentile |-> p,
                  mean |-> IF Len(ds) = 0 THEN 0 ELSE Sum(ds) \div Len(ds)]

\* What sort.Slice leaves in the slice of a caller, after the len = 0 return.
SortedInPlace(ds) == IF Len(ds) = 0 THEN ds ELSE SortSlice(ds)

CallCalculatePercentile ==
    /\ call = "none"
    /\ call' = "CalculatePercentile"
    /\ ret' = CalculatePercentile(args.durations, args.percentile)
    /\ args' = [args EXCEPT !.durations = SortedInPlace(@)]
    /\ UNCHANGED batch

CallCalculateStandardDeviation ==
    /\ call = "none"
    /\ call' = "CalculateStandardDeviation"
    /\ ret' = CalculateStandardDeviation(args.durations, args.mean)
    /\ UNCHANGED << batch, args >>

CallCalculateStats ==
    /\ call = "none"
    /\ call' = "CalculateStats"
    /\ ret' = CalculateStats(args.durations)
    /\ args' = [args EXCEPT !.durations = SortedInPlace(@)]
    /\ UNCHANGED batch

\* The end of Run's query loop, for a query all of whose executions succeeded
\* with the durations of the slice.
CallRunFinalize ==
    /\ call = "none"
    /\ call' = "Run"
    /\ ret' = RunFinalizeResult([NewQueryResult(Query(1)) EXCEPT
                                    !.SuccessfulExecutions = Len(args.durations),
                                    !.TotalDuration = Sum(args.durations)],
                                args.durations)
    /\ args' = [args EXCEPT !.durations = SortedInPlace(@)]
    /\ UNCHANGED batch

StatsNext ==
    \/ CallCalculatePercentile
    \/ CallCalculateStandardDeviation
    \/ CallCalculateStats
    \/ CallRunFinalize

SpecStats == InitStats /\ [][StatsNext]_vars

\* -------------------------------------------------------- the comparator
\* report.SaveComparisonJSON applied to two test results, each the results of
\* a run of one iteration over some of the queries 1..MaxNames.
MaxNames == 3
\* The durations, in minutes, of the successful executions of these runs.
AvgSamples == {0, 4, 5}

\* What a run did with a query: left it out, or executed it once, with or
\* without success.
Outcomes ==
    { [run |-> FALSE, ok |-> FALSE, duration |-> 0],
      [run |-> TRUE, ok |-> FALSE, duration |-> 0] }
        \cup { [run |-> TRUE, ok |-> TRUE, duration |-> d] : d \in AvgSamples }

\* The finalized result of query k after one execution.
ResultOfOne(k, outcome) ==
    LET resp == IF outcome.ok
                THEN [ZeroResponse EXCEPT !.issue = outcome.duration, !.rows = 1]
                ELSE [ZeroResponse EXCEPT !.issue = 2, !.issueErr = "Deadlock found"]
        qr == executeQuery(resp, 1)
    IN  RunFinalizeResult(RunRecord(RunCount(NewQueryResult(Query(k)), qr), qr),
                          RunDurations(<< >>, qr))

\* The QueryResults of a run, from query k on.
RECURSIVE QueryResultsFrom(_, _)
QueryResultsFrom(outcomes, k) ==
    IF k > MaxNames THEN << >>
    ELSE (IF outcomes[k].run THEN << ResultOfOne(k, outcomes[k]) >> ELSE << >>)
             \o QueryResultsFrom(outcomes, k + 1)

TestResults == { QueryResultsFrom(o, 1) : o \in [1..MaxNames -> Outcomes] }

InitCompare ==
    /\ InitState(0, 1, 1, {}, "none")
    /\ call = "none"
    /\ ret = << >>
    /\ \E b \in TestResults, a \in TestResults :
          args = [before |-> [QueryResults |-> b], after |-> [QueryResults |-> a]]

RECURSIVE GCD(_, _)
GCD(a, b) == IF b = 0 THEN a ELSE GCD(b, a % b)

\* The float64 num / den, den > 0, in lowest terms.
Reduced(num, den) ==
    LET d == GCD(IF num < 0 THEN -num ELSE num, den)
    IN  Quotient(num \div d, den \div d)

\* x > y for two float64 quotients.
Greater(x, y) == x.num * y.den > y.num * x.den

\* An improvement measured against the after run.
ImprovementPercentOfAfter(beforeAvgMs, afterAvgMs) ==
    IF afterAvgMs > 0
    THEN Reduced((beforeAvgMs - afterAvgMs) * 100, afterAvgMs)
    ELSE Quotient(0, 1)

\* improvementPct of one query.
ImprovementPercent(beforeAvgMs, afterAvgMs) ==
    IF beforeAvgMs > 0
    THEN Reduced((beforeAvgMs - afterAvgMs) * 100, beforeAvgMs)
    ELSE Quotient(0, 1)

\* afterMap: the names of the after run to the index of their last result.
AfterMap(after) ==
    [name \in { after[k].Name : k \in 1..Len(after) } |->
        CHOOSE k \in 1..Len(after) :
            /\ after[k].Name = name
            /\ \A j \in (k + 1)..Len(after) : after[j].Name /= name]

\* The comparisons in the order of the before run, before they are sorted.
RECURSIVE QueryComparisons(_, _)
QueryComparisons(before, after) ==
    IF before = << >> THEN << >>
    ELSE LET beforeQ == Head(before)
             afterMap == AfterMap(after)
         IN  IF beforeQ.Name \notin DOMAIN afterMap
             THEN QueryComparisons(Tail(before), after)
             ELSE LET afterQ == after[afterMap[beforeQ.Name]]
                      beforeAvgMs == Milliseconds(beforeQ.AvgDuration)
                      afterAvgMs == Milliseconds(afterQ.AvgDuration)
                  IN  << [Name |-> beforeQ.Name,
                          BeforeAvgMs |-> beforeAvgMs,
                          AfterAvgMs |-> afterAvgMs,
                          ImprovementPercent |->
                              ImprovementPercent(beforeAvgMs, afterAvgMs),
                          BeforeErrors |-> beforeQ.Errors,
                          AfterErrors |-> afterQ.Errors,
                          BeforeRows |-> beforeQ.RowsAffected,
                          AfterRows |-> afterQ.RowsAffected] >>
                          \o QueryComparisons(Tail(before), after)

\* A comparator that puts the smallest improvement first.
LessAscending(ci, cj) == Greater(cj.ImprovementPercent, ci.ImprovementPercent)

\* The less function of the sort of the comparisons.
Less(ci, cj) == Greater(ci.ImprovementPercent, cj.ImprovementPercent)

\* What sort.Slice may leave in the slice: any arrangement of its elements in
\* which no element is before one that is less than it (the sort is not stable).
Sorted(cs) ==
    LET n == Len(cs)
        perms == { p \in [1..n -> 1..n] : \A a, b \in 1..n : a /= b => p[a] /= p[b] }
    IN  { [k \in 1..n |-> cs[p[k]]] :
            p \in { q \in perms :
                       \A a, b \in 1..n : a < b => ~Less(cs[q[b]], cs[q[a]]) } }

\* The total of AvgDuration and the number of the results with a successful
\* execution.
SuccessTotal(rs) ==
    LET ok == SelectSeq(rs, LAMBDA q : q.SuccessfulExecutions > 0)
    IN  [total |-> Sum([k \in 1..Len(ok) |-> ok[k].AvgDuration]), count |-> Len(ok)]

\* avgTimeImprovement: (beforeAvg - afterAvg) / beforeAvg * 100 with
\* beforeAvg = beforeTotal ms / beforeCount and afterAvg = afterTotal ms / afterCount.
AvgTimeImprovement(before, after) ==
    LET b == SuccessTotal(before)
        a == SuccessTotal(after)
    IN  IF b.count > 0 /\ a.count > 0 /\ b.total > 0
        THEN Reduced((Milliseconds(b.total) * a.count - Milliseconds(a.total) * b.count)
                         * 100,
                     Milliseconds(b.total) * a.count)
        ELSE Quotient(0, 1)

SaveComparisonJSON ==
    /\ call = "none"
    /\ call' = "SaveComparisonJSON"
    /\ \E sorted \in Sorted(QueryComparisons(args.before.QueryResults,
                                              args.after.QueryResults)) :
          ret' = [ImprovementSummary |->
                      [AvgTimeImprovement |->
                          AvgTimeImprovement(args.before.QueryResults,
                                             args.after.QueryResults)],
                  QueryComparisons |-> sorted]
    /\ UNCHANGED << batch, args >>

CompareNext == SaveComparisonJSON

SpecCompare == InitCompare /\ [][CompareNext]_vars

\* ------------------------------------------------ the query classifier
\* AnalyzeQueryComplexity applied to a query text, and applied to it again.
MaxJoins == 3
MaxSelects == 2
\* The most occurrences of " and ", and of " or ".
MaxConditions == 3
\* One substring for each feature the classifier looks for, two for the CTE.
SampleSubstrings ==
    {"group by", "order by", "over (", "having ", "union ", "with ", " as (", "count("}

SampleSQL ==
    [join : 0..MaxJoins, select : 1..MaxSelects, and : 0..MaxConditions,
     or : 0..MaxConditions, has : SUBSET SampleSubstrings]

InitComplexity ==
    /\ InitState(0, 1, 1, {}, "none")
    /\ call = "none"
    /\ ret = << >>
    /\ \E sql \in SampleSQL : args = [sql |-> sql]

CallAnalyzeQueryComplexity ==
    /\ call = "none"
    /\ call' = "AnalyzeQueryComplexity"
    /\ ret' = << AnalyzeQueryComplexity(args.sql) >>
    /\ UNCHANGED << batch, args >>

CallAnalyzeQueryComplexityAgain ==
    /\ call = "AnalyzeQueryComplexity"
    /\ Len(ret) = 1
    /\ ret' = Append(ret, AnalyzeQueryComplexity(args.sql))
    /\ UNCHANGED << batch, call, args >>

ComplexityNext ==
    \/ CallAnalyzeQueryComplexity
    \/ CallAnalyzeQueryComplexityAgain

SpecComplexity == InitComplexity /\ [][ComplexityNext]_vars

\* -------------------------------------------- the error classifier alone
\* classifyErrorMessage applied to a lower-cased message, given by the
\* substrings it contains: a lock wait timeout is a timeout.
LoweredMessages ==
    { m \in SUBSET ErrorSubstrings : "lock wait timeout" \in m => "timeout" \in m }

InitErrors ==
    /\ InitState(0, 1, 1, {}, "none")
    /\ call = "none"
    /\ ret = << >>
    /\ \E m \in LoweredMessages : args = [errMsg |-> m]

CallClassifyErrorMessage ==
    /\ call = "none"
    /\ call' = "classifyErrorMessage"
    /\ ret' = classifyErrorMessage(args.errMsg)
    /\ UNCHANGED << batch, args >>

ErrorsNext == CallClassifyErrorMessage

SpecErrors == InitErrors /\ [][ErrorsNext]_vars

\* ================================================================ claims
Range(s) == { s[k] : k \in 1..Len(s) }

\* Every QueryResult there is: the returned ones and, in Run, the one of the
\* query being run.
AllResults ==
    Range(results) \cup (IF runner = "Run" /\ pc = "iterate" THEN {result} ELSE {})

\* The QueryResults into which no goroutine is merging an execution.
QuietResults ==
    IF runner = "Run"
    THEN Range(results) \cup
         (IF pc = "iterate" /\ resultMutex = {} THEN {result} ELSE {})
    ELSE { results[k] : k \in { j \in 1..Len(results) :
                                  tasks[j].pc \notin {"record", "count"} } }

\* The goroutines that have acquired an admission slot and not released it.
Holding ==
    IF runner = "Run"
    THEN { t \in DOMAIN tasks : tasks[t].pc \in {"exec", "lock", "count", "record", "exit"} }
    ELSE { t \in DOMAIN tasks : tasks[t].pc \in {"exec", "release"} }

\* The holders whose execution has failed.
HoldingFailed ==
    IF runner = "Run"
    THEN { t \in Holding : tasks[t].queryResult.err /= Nil }
    ELSE { t \in Holding : tasks[t].execution.Error /= Nil }

Failures(r) == SelectSeq(r.Executions, LAMBDA e : e.ErrorMessage /= "")

Successes(r) == SelectSeq(r.Executions, LAMBDA e : e.ErrorMessage = "")

SuccessDurations(r) == [k \in 1..Len(Successes(r)) |-> Successes(r)[k].Duration]

\* C1: in both runners and every interleaving, the number of executions that
\* hold an admission slot never exceeds the concurrency cap, the tokens in the
\* semaphore are exactly those of the executions still holding one (each slot
\* acquired is released once, after a success or a failure), and none is left
\* when the runner has returned.
C1_AdmissionBounded ==
    /\ Cardinality(Holding) <= concurrency
    /\ semaphore = Cardinality(Holding)
    /\ pc = "returned" => semaphore = 0 /\ Holding = {}

C1_Witness ==
    /\ concurrency >= 2
    /\ semaphore = concurrency
    /\ HoldingFailed /= {}
    /\ HoldingFailed /= Holding

\* C2: for every QueryResult into which no merge is in progress,
\* SuccessfulExecutions + Errors = len(Executions).
C2_CountsMatchExecutions ==
    \A r \in QuietResults : r.SuccessfulExecutions + r.Errors = Len(r.Executions)

C2_Witness ==
    /\ pc = "returned"
    /\ \E r \in Range(results) : r.SuccessfulExecutions >= 1 /\ r.Errors >= 1

\* C3: when the runner returns there is one QueryResult per input query, in
\* input order and with that query's name, each holding exactly `iterations`
\* executions, however many of them failed.
C3_CompleteResults ==
    pc = "returned" =>
        /\ Len(results) = Len(queries)
        /\ \A k \in 1..Len(queries) :
              /\ results[k].Name = queries[k].Name
              /\ Len(results[k].Executions) = iterations

C3_Witness ==
    /\ pc = "returned"
    /\ Len(queries) >= 2
    /\ iterations >= 2
    /\ results[1].Errors = iterations
    /\ results[2].Errors >= 1
    /\ results[2].SuccessfulExecutions >= 1

\* C4: under fair scheduling the runner eventually returns, and from then on
\* every admission slot is free and neither lock is held.
C4_EventuallyReturns ==
    /\ <>(pc = "returned")
    /\ [](pc = "returned" => semaphore = 0 /\ resultMutex = {} /\ mutex = {} /\ wg = 0)

C4_Witness ==
    /\ pc = "returned"
    /\ concurrency = 1
    /\ Len(queries) >= 2
    /\ iterations >= 2
    /\ \E r \in Range(results) : r.Errors = iterations

Min(a, b) == IF a < b THEN a ELSE b

\* C5: len(ErrorDetails) never exceeds 10: it is the number of failures counted
\* in Errors up to 10 and stays 10 from then on, while Errors goes on counting
\* every failed execution.
C5_ErrorDetailsCapped ==
    /\ \A r \in AllResults :
          /\ Len(r.ErrorDetails) <= ErrorCap
          /\ Len(r.ErrorDetails) = Min(r.Errors, ErrorCap)
    /\ \A r \in QuietResults : r.Errors = Len(Failures(r))

C5_Witness ==
    /\ pc = "returned"
    /\ results[1].Errors > ErrorCap + 1
    /\ Len(results[1].ErrorDetails) = ErrorCap

RECURSIVE FirstSeen(_)
FirstSeen(s) ==
    IF s = << >> THEN << >>
    ELSE LET front == FirstSeen(SubSeq(s, 1, Len(s) - 1))
         IN  IF s[Len(s)] \in Range(front) THEN front ELSE Append(front, s[Len(s)])

FailureMessages(r) == [k \in 1..Len(Failures(r)) |-> Failures(r)[k].ErrorMessage]

\* C6: ErrorDetails holds distinct error messages in first-seen order: no
\* message appears twice, and the messages are, in order, the first occurrences
\* among the failures merged (up to the cap).
C6_ErrorDetailsDistinct ==
    /\ \A r \in AllResults :
          \A a, b \in 1..Len(r.ErrorDetails) :
              a /= b => r.ErrorDetails[a] /= r.ErrorDetails[b]
    /\ \A r \in QuietResults :
          LET seen == FirstSeen(FailureMessages(r))
          IN  r.ErrorDetails = SubSeq(seen, 1, Min(Len(seen), ErrorCap))

\* C6 (amended): ErrorDetails holds, in merge order, the message of each of the
\* first 10 failed executions merged; a message that several failures share
\* appears once for each of them.
C6_ErrorDetailsPerFailure ==
    \A r \in QuietResults :
        LET messages == FailureMessages(r)
        IN  r.ErrorDetails = SubSeq(messages, 1, Min(Len(messages), ErrorCap))

C6_Witness ==
    \E r \in QuietResults :
        r.ErrorDetails = << "Deadlock found", "context deadline exceeded", "Deadlock found" >>

\* C7: a QueryResult returned with no successful execution has its average,
\* median, P95, P99 and standard deviation at zero and MinDuration at the
\* sentinel it started with, which is not 0.
C7_ZeroSuccessUndefined ==
    pc = "returned" =>
        \A r \in Range(results) :
            r.SuccessfulExecutions = 0 =>
                /\ r.AvgDuration = 0
                /\ r.MedianDuration = 0
                /\ r.Percentile95 = 0
                /\ r.Percentile99 = 0
                /\ r.StdDevDuration = 0
                /\ r.MinDuration = Hour
                /\ r.MinDuration /= 0

C7_Witness ==
    /\ pc = "returned"
    /\ iterations >= 2
    /\ \E r \in Range(results) : r.SuccessfulExecutions = 0 /\ r.Errors = iterations
    /\ \E r \in Range(results) : r.SuccessfulExecutions > 0

\* The fields a failed execution's merge may change.
FailureFields ==
    {"Executions", "Errors", "ErrorDetails", "FirstExecutedAt", "LastExecutedAt"}

SameButFailureFields(before, after) ==
    \A f \in (DOMAIN before) \ FailureFields : after[f] = before[f]

\* A step of goroutine t that merges a failed execution.
FailedMergeStep(t) ==
    /\ t \in DOMAIN tasks'
    /\ tasks'[t].pc /= tasks[t].pc
    /\ IF runner = "Run"
       THEN tasks[t].pc \in {"count", "record"} /\ tasks[t].queryResult.err /= Nil
       ELSE tasks[t].pc \in {"release", "record", "count"}
            /\ tasks[t].execution.Error /= Nil

\* The queries whose result has been finalized.
Finalized ==
    IF runner = "Run"
    THEN 1..Len(results)
    ELSE { k \in 1..Len(results) : tasks[k].pc = "done" }

\* The statistics' input is the ascending successful durations, and P95 is one
\* of its elements.
StatisticsFromSuccesses ==
    \A k \in Finalized :
        /\ durations[k] = SortSlice(SuccessDurations(results[k]))
        /\ results[k].Percentile95 =
              IF durations[k] = << >> THEN 0
              ELSE durations[k][PercentileIndex(Len(durations[k]), 95) + 1]

\* C8: a step that merges a failed execution leaves every field of its
\* QueryResult but Executions, Errors, ErrorDetails and the two timestamps
\* unchanged, and leaves the durations slices unchanged; the slice the
\* statistics of a finalized result are computed from holds the successful
\* executions' durations only.
C8_FailedMergeFrame ==
    [][ /\ \A t \in DOMAIN tasks :
              FailedMergeStep(t) =>
                  /\ durations' = durations
                  /\ IF runner = "Run"
                     THEN SameButFailureFields(result, result')
                     ELSE SameButFailureFields(results[t], results'[t])
        /\ StatisticsFromSuccesses' ]_vars

C8_Witness ==
    /\ runner = "Run"
    /\ pc = "iterate"
    /\ resultMutex = {}
    /\ Len(result.Executions) = 2
    /\ result.Executions[1].ErrorMessage = ""
    /\ result.Executions[2].ErrorMessage /= ""
    /\ result.Executions[2].Duration > result.MaxDuration

\* C9: a QueryResult returned with at least one successful execution has
\* MedianDuration, Percentile95, Percentile99 and StdDevDuration equal to the
\* statistics of its successful durations, in Run as in ExecuteBatch.
C9_FinalizedStatistics ==
    pc = "returned" =>
        \A r \in Range(results) :
            r.SuccessfulExecutions > 0 =>
                LET stats == CalculateStats(SuccessDurations(r))
                IN  /\ r.MedianDuration = stats.Median
                    /\ r.Percentile95 = stats.P95
                    /\ r.Percentile99 = stats.P99
                    /\ r.StdDevDuration = stats.StdDev

\* The goroutines that hold the outcome of an execution not yet merged.
Executed ==
    IF runner = "Run"
    THEN { t \in DOMAIN tasks : tasks[t].pc \in {"lock", "count", "record"} }
    ELSE { t \in DOMAIN tasks : tasks[t].pc \in {"release", "lock", "record", "count"} }

\* C10: the duration an execution reports runs from dispatch until the rows
\* have been drained: it is the time QueryContext took plus the time the row
\* iteration took.
C10_DurationCoversDrain ==
    \A t \in Executed :
        LET reported == IF runner = "Run" THEN tasks[t].queryResult.duration
                        ELSE tasks[t].execution.Duration
        IN  reported = tasks[t].resp.issue + tasks[t].resp.drain

\* C11: the merge locks a mutex scoped to one QueryResult, so while a goroutine
\* is inside the critical section of one query, a goroutine that waits to merge
\* into another query can take its own lock.
C11_MergesOfDifferentQueriesIndependent ==
    \A a \in DOMAIN tasks, b \in DOMAIN tasks :
        ( /\ runner = "ExecuteBatch"
          /\ a /= b
          /\ tasks[a].pc \in {"record", "count"}
          /\ tasks[b].pc = "lock" )
        => ENABLED BatchLock(b)

\* ---------------------------------------------------------------- C12..C15
\* The slice CalculateStats was applied to, when it was not empty.
StatsOf(ds) == call = "CalculateStats" /\ args.original = ds /\ Len(ds) > 0

\* C12: for a non-empty slice, CalculateStats returns
\* Min <= Median <= P95 <= P99 <= Max, Min the smallest element and Max the
\* largest; for a slice of one element x, P95 = P99 = x.
C12_StatsOrdered ==
    \A ds \in SampleSlices :
        StatsOf(ds) =>
            /\ ret.Min <= ret.Median
            /\ ret.Median <= ret.P95
            /\ ret.P95 <= ret.P99
            /\ ret.P99 <= ret.Max
            /\ ret.Min \in Range(ds)
            /\ ret.Max \in Range(ds)
            /\ \A x \in Range(ds) : ret.Min <= x /\ x <= ret.Max
            /\ Len(ds) = 1 => (ret.P95 = ds[1] /\ ret.P99 = ds[1])

\* CalculateStats applied to 25 distinct durations given longest first: the
\* median, P95 and P99 are three different elements.
C12_Witness ==
    /\ StatsOf(Ramp(25))
    /\ ret.Min < ret.Median
    /\ ret.Median < ret.P95
    /\ ret.P95 < ret.P99
    /\ ret.P99 <= ret.Max

\* The element at index min(floor(n * p / 100), n - 1), counted from 0, of the
\* elements of ds in ascending order: the element with at most that many
\* elements below it and more than that many not above it.
NearestRank(ds, p) ==
    LET n == Len(ds)
        idx == Min((n * p) \div 100, n - 1)
        Below(x) == Cardinality({k \in 1..n : ds[k] < x})
        NotAbove(x) == Cardinality({k \in 1..n : ds[k] <= x})
    IN  CHOOSE x \in Range(ds) : Below(x) <= idx /\ idx < NotAbove(x)

\* C13: every percentile the program computes from n > 0 durations is the
\* element at index min(floor(n * p / 100), n - 1) of the ascending sequence:
\* CalculatePercentile for its p, the Median, P95 and P99 of CalculateStats for
\* 50, 95 and 99, the Percentile95 of Run for 95.
C13_PercentilesNearestRank ==
    Len(args.original) > 0 =>
        /\ call = "CalculatePercentile" => ret = NearestRank(args.original, args.percentile)
        /\ call = "CalculateStats" =>
              /\ ret.Median = NearestRank(args.original, 50)
              /\ ret.P95 = NearestRank(args.original, 95)
              /\ ret.P99 = NearestRank(args.original, 99)
        /\ call = "Run" => ret.Percentile95 = NearestRank(args.original, 95)

\* CalculatePercentile has returned the 95th percentile of 20 distinct
\* durations, the element at index 19, where the textbook rank is index 18.
C13_Witness ==
    /\ call = "CalculatePercentile"
    /\ args.original = Ramp(20)
    /\ args.percentile = 95
    /\ ret = 20

\* Two float64 quotients with positive denominators are the same number.
SameQuotient(x, y) == x.num * y.den = y.num * x.den

\* C14: the program has one variance convention, division by N: for two or more
\* durations with mean m, the variance CalculateStandardDeviation takes the
\* square root of is the variance CalculateStats takes the square root of.
C14_OneVarianceConvention ==
    ( /\ call = "CalculateStandardDeviation"
      /\ Len(args.durations) >= 2 )
    => SameQuotient(StandardDeviationVariance(args.durations, args.mean),
                    StatsVariance(args.durations, args.mean))

\* C15: the statistics functions leave the caller's slice as it was: after
\* CalculateStats or CalculatePercentile returns, the slice holds the same
\* elements in the same order as before the call.
C15_CallerSliceUnchanged ==
    call \in {"CalculateStats", "CalculatePercentile"} => args.durations = args.original

\* ---------------------------------------------------------------- C16
\* The answers whose query is issued without error and whose row iteration fails.
RowsFailed(resp) == resp.issueErr = Nil /\ resp.rowsErr /= Nil

\* The goroutines that hold the outcome of an execution not yet merged in full.
Carrying ==
    IF runner = "Run"
    THEN { t \in DOMAIN tasks : tasks[t].pc \in {"lock", "count", "record"} }
    ELSE { t \in DOMAIN tasks : tasks[t].pc \in {"release", "lock", "record", "count"} }

\* The executions of r that record a failed row iteration.
RowFailures(r) ==
    SelectSeq(r.Executions,
              LAMBDA e : \E resp \in db : RowsFailed(resp) /\ e.ErrorMessage = resp.rowsErr)

\* C16: an execution whose query is issued without error and whose row
\* iteration fails is a failed execution: it carries the iteration's error
\* message; merged, it counts in Errors and not in SuccessfulExecutions and adds
\* nothing to TotalDuration or RowsAffected; the batch goes on to its last
\* iteration.
C16_RowIterationFailure ==
    /\ \A t \in Carrying :
          RowsFailed(tasks[t].resp) =>
              IF runner = "Run"
              THEN tasks[t].queryResult.err = tasks[t].resp.rowsErr
              ELSE /\ tasks[t].execution.Error = tasks[t].resp.rowsErr
                   /\ tasks[t].execution.ErrorMessage = tasks[t].resp.rowsErr
    /\ \A r \in QuietResults :
          /\ \A k \in 1..Len(RowFailures(r)) : RowFailures(r)[k] \in Range(Failures(r))
          /\ r.Errors = Len(Failures(r))
          /\ r.SuccessfulExecutions = Len(Successes(r))
          /\ r.TotalDuration = Sum(SuccessDurations(r))
          /\ r.RowsAffected =
                Sum([k \in 1..Len(Successes(r)) |-> Successes(r)[k].RowCount])
    /\ pc = "returned" =>
          \A r \in Range(results) : Len(r.Executions) = iterations

\* A returned result whose first merged execution lost its row iteration after
\* one row and three minutes, and whose next execution succeeded with no rows.
C16_Witness ==
    /\ pc = "returned"
    /\ \E r \in Range(results) :
          /\ Len(r.Executions) = 2
          /\ r.Executions[1].ErrorMessage = "context deadline exceeded"
          /\ r.Executions[1].RowCount = 1
          /\ r.Executions[1].Duration = 3
          /\ r.Executions[2].ErrorMessage = ""
          /\ r.Errors = 1
          /\ r.SuccessfulExecutions = 1
          /\ r.TotalDuration = r.Executions[2].Duration
          /\ r.RowsAffected = 0

\* ---------------------------------------------------------------- C17, C18
\* The results with at least one successful execution.
WithSuccess(rs) == SelectSeq(rs, LAMBDA r : r.SuccessfulExecutions > 0)

\* C17: the overall average of the summary is the mean of AvgDuration over the
\* queries with at least one successful execution; a query without one is left
\* out of the mean, not counted as zero.
C17_AverageOverQueriesWithSuccess ==
    pc = "reported" =>
        LET ok == WithSuccess(results)
        IN  summary.AvgDurationMs =
                IF Len(ok) = 0 THEN 0
                ELSE Milliseconds(Sum([k \in 1..Len(ok) |-> ok[k].AvgDuration])
                                      \div Len(ok))

RECURSIVE MapTotal(_)
MapTotal(m) ==
    IF DOMAIN m = {} THEN 0
    ELSE LET key == CHOOSE x \in DOMAIN m : TRUE
         IN  m[key] + MapTotal([x \in DOMAIN m \ {key} |-> m[x]])

\* C18: the summary's TotalExecutions, SuccessfulExecutions, FailedExecutions
\* and TotalRowsReturned are the sums over the results of the number of
\* executions, SuccessfulExecutions, Errors and RowsAffected;
\* TotalExecutions = SuccessfulExecutions + FailedExecutions; SuccessfulQueries
\* is the number of results without error and, with FailedQueries, adds up to
\* TotalQueries; the counts per complexity add up to TotalQueries.
C18_SummaryTotals ==
    pc = "reported" =>
        LET n == Len(results)
            Total(F(_)) == Sum([k \in 1..n |-> F(results[k])])
            ExecutionsOf(r) == Len(r.Executions)
            SuccessesOf(r) == r.SuccessfulExecutions
            ErrorsOf(r) == r.Errors
            RowsOf(r) == r.RowsAffected
        IN  /\ summary.TotalQueries = n
            /\ summary.TotalExecutions = Total(ExecutionsOf)
            /\ summary.SuccessfulExecutions = Total(SuccessesOf)
            /\ summary.FailedExecutions = Total(ErrorsOf)
            /\ summary.TotalRowsReturned = Total(RowsOf)
            /\ summary.TotalExecutions =
                  summary.SuccessfulExecutions + summary.FailedExecutions
            /\ summary.SuccessfulQueries =
                  Cardinality({k \in 1..n : results[k].Errors = 0})
            /\ summary.SuccessfulQueries + summary.FailedQueries = summary.TotalQueries
            /\ \A tag \in DOMAIN summary.QueriesByComplexity :
                  summary.QueriesByComplexity[tag] =
                      Cardinality({k \in 1..n : results[k].QueryComplexity = tag})
            /\ MapTotal(summary.QueriesByComplexity) = summary.TotalQueries

\* The summary of two queries of different complexity, one without error and
\* one with two failed executions and a successful one that returned rows.
C18_Witness ==
    /\ pc = "reported"
    /\ summary.TotalQueries = 2
    /\ summary.SuccessfulQueries = 1
    /\ summary.FailedQueries = 1
    /\ summary.FailedExecutions = 2
    /\ summary.TotalExecutions = 4
    /\ summary.TotalRowsReturned > 0
    /\ DOMAIN summary.QueriesByComplexity = {"low", "high"}

\* ---------------------------------------------------------------- C19, C20
Names(rs) == { rs[k].Name : k \in 1..Len(rs) }

\* The results of rs whose query has a successful execution in both before and
\* after.
SucceededInBoth(rs, before, after) ==
    SelectSeq(rs, LAMBDA q :
        /\ \E k \in 1..Len(before) :
              before[k].Name = q.Name /\ before[k].SuccessfulExecutions > 0
        /\ \E k \in 1..Len(after) :
              after[k].Name = q.Name /\ after[k].SuccessfulExecutions > 0)

\* C19: the aggregate improvement is computed only from the queries with a
\* successful execution in both runs: a query missing from one run, or without
\* a success in one run, contributes to the average of neither run.
C19_AggregateFromQueriesInBoth ==
    call = "SaveComparisonJSON" =>
        LET before == args.before.QueryResults
            after == args.after.QueryResults
        IN  SameQuotient(ret.ImprovementSummary.AvgTimeImprovement,
                         AvgTimeImprovement(SucceededInBoth(before, before, after),
                                            SucceededInBoth(after, before, after)))

\* C20: with names unique in each run, the comparison list has exactly one
\* QueryComparison for every name that is in both runs, none for a name that is
\* in one run only, and is in non-increasing order of ImprovementPercent.
C20_ComparisonsJoinedAndOrdered ==
    call = "SaveComparisonJSON" =>
        LET cs == ret.QueryComparisons
            both == Names(args.before.QueryResults) \cap Names(args.after.QueryResults)
        IN  /\ Names(cs) = both
            /\ Len(cs) = Cardinality(both)
            /\ \A a, b \in 1..Len(cs) :
                  a < b => ~Greater(cs[b].ImprovementPercent, cs[a].ImprovementPercent)

\* The before run has queries 1, 2 and 3, the after run 2 and 3 only; query 2
\* got slower (4 to 5 minutes), query 3 faster (5 to 4): the list is query 3
\* with 20 percent, then query 2 with -25 percent.
C20_Witness ==
    /\ call = "SaveComparisonJSON"
    /\ Names(args.before.QueryResults) = { Query(k).Name : k \in 1..3 }
    /\ Names(args.after.QueryResults) = { Query(k).Name : k \in 2..3 }
    /\ Len(ret.QueryComparisons) = 2
    /\ ret.QueryComparisons[1].Name = Query(3).Name
    /\ ret.QueryComparisons[1].ImprovementPercent = Quotient(20, 1)
    /\ ret.QueryComparisons[2].Name = Query(2).Name
    /\ ret.QueryComparisons[2].ImprovementPercent = Quotient(-25, 1)

\* ---------------------------------------------------------------- C21
\* The result of the query called name in a run.
ResultNamed(rs, name) == rs[CHOOSE k \in 1..Len(rs) : rs[k].Name = name]

\* C21: for every compared query, ImprovementPercent is
\* (beforeAvgMs - afterAvgMs) / beforeAvgMs * 100 when beforeAvgMs > 0 and 0
\* when beforeAvgMs is 0; 100 and 80 give 20; an after run slower than the
\* before run gives a negative value.
C21_ImprovementPercent ==
    /\ ImprovementPercent(100, 80) = Quotient(20, 1)
    /\ call = "SaveComparisonJSON" =>
          \A k \in 1..Len(ret.QueryComparisons) :
              LET c == ret.QueryComparisons[k]
                  pct == c.ImprovementPercent
              IN  /\ c.BeforeAvgMs =
                        Milliseconds(ResultNamed(args.before.QueryResults, c.Name).AvgDuration)
                  /\ c.AfterAvgMs =
                        Milliseconds(ResultNamed(args.after.QueryResults, c.Name).AvgDuration)
                  /\ pct.den > 0
                  /\ IF c.BeforeAvgMs > 0
                     THEN pct.num * c.BeforeAvgMs =
                              (c.BeforeAvgMs - c.AfterAvgMs) * 100 * pct.den
                     ELSE pct.num = 0
                  /\ (c.BeforeAvgMs > 0 /\ c.AfterAvgMs > c.BeforeAvgMs) => pct.num < 0

\* Three compared queries: one from 5 minutes to 4 (20 percent, the ratio of
\* 100 ms to 80 ms), one from 4 minutes to 5 (negative), one from 0 to 5 (zero).
C21_Witness ==
    /\ call = "SaveComparisonJSON"
    /\ Len(ret.QueryComparisons) = 3
    /\ \E k \in 1..3 :
          /\ ret.QueryComparisons[k].BeforeAvgMs = Milliseconds(5)
          /\ ret.QueryComparisons[k].AfterAvgMs = Milliseconds(4)
          /\ ret.QueryComparisons[k].ImprovementPercent = Quotient(20, 1)
    /\ \E k \in 1..3 :
          /\ ret.QueryComparisons[k].BeforeAvgMs = Milliseconds(4)
          /\ ret.QueryComparisons[k].AfterAvgMs = Milliseconds(5)
          /\ ret.QueryComparisons[k].ImprovementPercent = Quotient(-25, 1)
    /\ \E k \in 1..3 :
          /\ ret.QueryComparisons[k].BeforeAvgMs = 0
          /\ ret.QueryComparisons[k].AfterAvgMs = Milliseconds(5)
          /\ ret.QueryComparisons[k].ImprovementPercent = Quotient(0, 1)

\* ---------------------------------------------------------------- C22, C30
Tiers == {"high", "medium", "low-medium", "low"}

\* The rule list of the classifier over the features f, first match first.
TierByRules(f) ==
    LET high ==
            \/ f.joinCount > 2 /\ (f.hasAggregation \/ f.hasSubquery)
            \/ f.hasWindowFunc
            \/ f.hasUnion
            \/ f.hasAggregation /\ f.hasHaving
            \/ f.hasCTE
            \/ f.conditionComplexity > 5
        medium ==
            \/ f.joinCount > 0 /\ (f.hasAggregation \/ f.hasSubquery)
            \/ f.conditionComplexity > 2
            \/ f.joinCount > 1
        lowMedium == f.joinCount > 0 \/ f.hasAggregation \/ f.hasSubquery \/ f.hasOrdering
    IN  CASE high -> "high"
          [] ~high /\ medium -> "medium"
          [] ~high /\ ~medium /\ lowMedium -> "low-medium"
          [] OTHER -> "low"

\* C22: AnalyzeQueryComplexity is a total function onto the four tiers that
\* applies the tier rules in strict precedence over the features: for every
\* combination of feature values its result is the rule list's; three joins
\* with GROUP BY and HAVING are high, a query with no feature is low.
C22_TierByRules ==
    /\ \A tier \in Tiers : \E k \in 1..4 : AnalyzeQueryComplexity(QuerySQL(k)) = tier
    /\ call = "AnalyzeQueryComplexity" =>
          /\ ret[1] \in Tiers
          /\ ret[1] = TierByRules(QueryFeatures(args.sql))
          /\ ( /\ args.sql.join = 3
               /\ {"group by", "having "} \subseteq args.sql.has ) => ret[1] = "high"
          /\ ( /\ args.sql.join = 0
               /\ args.sql.select = 1
               /\ args.sql.and + args.sql.or = 0
               /\ args.sql.has = {} ) => ret[1] = "low"

\* Scenario B: "join" three times, GROUP BY and HAVING, nothing else: high.
C22_Witness ==
    /\ call = "AnalyzeQueryComplexity"
    /\ args.sql = [join |-> 3, select |-> 1, and |-> 0, or |-> 0,
                   has |-> {"group by", "having "}]
    /\ ret[1] = "high"

Rank(tier) ==
    CASE tier = "low" -> 0
      [] tier = "low-medium" -> 1
      [] tier = "medium" -> 2
      [] tier = "high" -> 3

\* The texts with one more "join", one more "select", one more " and " or
\* " or ", or one more of the substrings than sql.
OneMore(sql) ==
    { [sql EXCEPT !.join = @ + 1], [sql EXCEPT !.select = @ + 1],
      [sql EXCEPT !.and = @ + 1], [sql EXCEPT !.or = @ + 1] }
        \cup { [sql EXCEPT !.has = @ \cup {x}] : x \in SampleSubstrings \cup {" as("} }

\* C30: AnalyzeQueryComplexity is monotone under low < low-medium < medium <
\* high: a higher join or AND/OR count, or one more of aggregation, subquery,
\* ORDER BY, window function, UNION, HAVING, CTE, the rest the same, never gives
\* a lower tier; and the same text classified twice gives the same tier twice.
C30_Monotone ==
    call = "AnalyzeQueryComplexity" =>
        /\ \A more \in OneMore(args.sql) :
              Rank(AnalyzeQueryComplexity(more)) >= Rank(ret[1])
        /\ \A k \in 1..Len(ret) : ret[k] = ret[1]

\* A text with two joins, classified twice as medium; with a third join and
\* with GROUP BY it would be high.
C30_Witness ==
    /\ call = "AnalyzeQueryComplexity"
    /\ args.sql = [join |-> 2, select |-> 1, and |-> 0, or |-> 0, has |-> {"count("}]
    /\ ret = << "medium", "medium" >>
    /\ AnalyzeQueryComplexity([args.sql EXCEPT !.join = 3]) = "high"

\* ---------------------------------------------------------------- C23, C24
\* The rules of the taxonomy in their order: the substrings of a rule and its
\* label.
Taxonomy ==
    << [any |-> {"deadlock"}, label |-> "Deadlock"],
       [any |-> {"lock wait timeout"}, label |-> "Lock timeout"],
       [any |-> {"foreign key constraint"}, label |-> "Foreign key constraint"],
       [any |-> {"duplicate entry"}, label |-> "Duplicate entry"],
       [any |-> {"truncated", "out of range"}, label |-> "Data truncation/range"],
       [any |-> {"convert", "illegal mix"}, label |-> "Type conversion"],
       [any |-> {"context deadline", "timeout"}, label |-> "Query timeout"] >>

\* The rules a lower-cased message matches.
Matching(lower) == { k \in DOMAIN Taxonomy : Taxonomy[k].any \cap lower /= {} }

\* C23: classifyErrorMessage returns exactly one of the eight labels for every
\* message, the label of the first rule that matches in the order of the
\* taxonomy, "Other error" when none does; a message with "lock wait timeout"
\* and "timeout" is a "Lock timeout", one with "deadlock" and "timeout" a
\* "Deadlock".
C23_FirstMatchingLabel ==
    call = "classifyErrorMessage" =>
        LET matching == Matching(args.errMsg)
        IN  /\ ret \in { Taxonomy[k].label : k \in DOMAIN Taxonomy } \cup {"Other error"}
            /\ matching = {} => ret = "Other error"
            /\ matching /= {} =>
                  ret = Taxonomy[CHOOSE k \in matching : \A j \in matching : k <= j].label
            /\ {"lock wait timeout", "timeout"} \subseteq args.errMsg
                  /\ "deadlock" \notin args.errMsg => ret = "Lock timeout"
            /\ {"deadlock", "timeout"} \subseteq args.errMsg => ret = "Deadlock"

\* A message that contains "lock wait timeout", hence "timeout", and nothing
\* else the classifier looks for: a "Lock timeout".
C23_Witness ==
    /\ call = "classifyErrorMessage"
    /\ args.errMsg = {"lock wait timeout", "timeout"}
    /\ ret = "Lock timeout"

\* C24: for a query whose every execution fails with "Deadlock found", whatever
\* the number of iterations, the result has Errors = iterations and
\* ClassifyErrors tallies every failure under "Deadlock": "Deadlock" is the only
\* key of the map and its count is the number of iterations.
C24_DeadlocksTallied ==
    ( /\ call = "ClassifyErrors"
      /\ Len(results) = 1
      /\ \A k \in 1..Len(results[1].Executions) :
            results[1].Executions[k].ErrorMessage = "Deadlock found" )
    => /\ results[1].Errors = iterations
       /\ DOMAIN ret = {"Deadlock"}
       /\ ret["Deadlock"] = iterations

\* ---------------------------------------------------------------- C25, C26
\* The batch is over: the runner has returned.
Finished == pc \in {"returned", "reported"}

\* C25: when a batch finishes, each QueryResult with an execution has
\* FirstExecutedAt the StartTime of the first execution merged into it and
\* LastExecutedAt the StartTime of the last one, Executions[0] and
\* Executions[len-1], in every interleaving.
C25_StampsOfFirstAndLastMerged ==
    Finished =>
        \A r \in Range(results) :
            Len(r.Executions) > 0 =>
                /\ r.FirstExecutedAt = r.Executions[1].StartTime
                /\ r.LastExecutedAt = r.Executions[Len(r.Executions)].StartTime

\* Run has returned a result whose first merged execution started after its
\* last merged one: two goroutines merged in the reverse of their start order.
C25_Witness ==
    /\ Finished
    /\ runner = "Run"
    /\ \E r \in Range(results) :
          /\ Len(r.Executions) = 2
          /\ r.Executions[1].StartTime > r.Executions[2].StartTime
          /\ r.FirstExecutedAt = r.Executions[1].StartTime
          /\ r.LastExecutedAt = r.Executions[2].StartTime

\* C26: every finalized QueryResult with an execution has
\* FirstExecutedAt <= LastExecutedAt, in every interleaving of Run and of
\* ExecuteBatch.
C26_FirstNotAfterLast ==
    \A k \in Finalized :
        Len(results[k].Executions) > 0 =>
            results[k].FirstExecutedAt <= results[k].LastExecutedAt

\* ---------------------------------------------------------------- C27, C28
\* C27: every finalized QueryResult with a successful execution has
\* MinDuration the smallest and MaxDuration the largest duration of its
\* successful executions, whatever the durations, one hour and more included.
C27_MinMaxOfSuccesses ==
    \A k \in Finalized :
        results[k].SuccessfulExecutions > 0 =>
            LET ds == Range(SuccessDurations(results[k]))
            IN  /\ results[k].MinDuration \in ds
                /\ results[k].MaxDuration \in ds
                /\ \A d \in ds : results[k].MinDuration <= d /\ d <= results[k].MaxDuration

\* The same for the results all of whose successful executions took less than
\* an hour.
MinMaxBelowAnHour ==
    \A k \in Finalized :
        ( /\ results[k].SuccessfulExecutions > 0
          /\ \E d \in Range(SuccessDurations(results[k])) : d < Hour )
        => LET ds == Range(SuccessDurations(results[k]))
           IN  /\ results[k].MinDuration \in ds
               /\ results[k].MaxDuration \in ds
               /\ \A d \in ds : results[k].MinDuration <= d /\ d <= results[k].MaxDuration

\* C28: no update is lost: when a batch finishes, each QueryResult has
\* TotalDuration the sum of Duration over its successful executions,
\* RowsAffected the sum of their RowCount and, with a successful execution,
\* AvgDuration = TotalDuration divided by SuccessfulExecutions (integer division).
C28_NoLostUpdate ==
    Finished =>
        \A r \in Range(results) :
            LET ok == Successes(r)
            IN  /\ r.TotalDuration = Sum([k \in 1..Len(ok) |-> ok[k].Duration])
                /\ r.RowsAffected = Sum([k \in 1..Len(ok) |-> ok[k].RowCount])
                /\ r.SuccessfulExecutions = Len(ok)
                /\ r.SuccessfulExecutions > 0 =>
                      r.AvgDuration = r.TotalDuration \div r.SuccessfulExecutions

\* Run, two executions at a time, has returned a result of three executions:
\* two successes of 1 and 61 minutes with 0 and 2 rows, and a failure.
C28_Witness ==
    /\ Finished
    /\ runner = "Run"
    /\ concurrency = 2
    /\ \E r \in Range(results) :
          /\ Len(r.Executions) = 3
          /\ r.Errors = 1
          /\ r.SuccessfulExecutions = 2
          /\ r.TotalDuration = Hour + 2
          /\ r.RowsAffected = 2
          /\ r.AvgDuration = 31

\* ---------------------------------------------------------------- C29
\* C29: a step taken for query q leaves the QueryResult of every other query
\* as it is: in ExecuteBatch no step of the goroutine of q changes results[j]
\* for j /= q, and its finalization keeps q's Executions in their order; in Run
\* the results already appended stay as they are and the result of q is
\* appended with its Executions in their order.
C29_OtherResultsUnchanged ==
    [][ /\ runner = "ExecuteBatch" =>
              \A q \in DOMAIN tasks :
                  tasks'[q] /= tasks[q] =>
                      /\ \A j \in (DOMAIN results) \ {q} : results'[j] = results[j]
                      /\ tasks[q].pc = "finalize" =>
                            results'[q].Executions = results[q].Executions
        /\ runner = "Run" =>
              /\ Len(results') >= Len(results)
              /\ \A j \in 1..Len(results) : results'[j] = results[j]
              /\ Len(results') > Len(results) =>
                    results'[Len(results')].Executions = result.Executions ]_vars

\* ExecuteBatch: the goroutines of both queries are done; the second query's
\* result is finalized with its executions still in merge order, the longer
\* one first, and the first query's result is the one its own goroutine left.
C29_Witness ==
    /\ runner = "ExecuteBatch"
    /\ Len(results) = 2
    /\ tasks[1].pc = "done"
    /\ tasks[2].pc = "done"
    /\ Len(results[2].Executions) = 2
    /\ results[2].Executions[1].Duration > results[2].Executions[2].Duration
    /\ results[2].SuccessfulExecutions = 2
    /\ results[2].MedianDuration = Hour + 1
    /\ results[1].Name = Query(1).Name
    /\ Len(results[1].Executions) = 2

====
